---------------------------- MODULE Spec2Model ----------------------------
(***************************************************************************)
(* Chronicle Weaver: the multi-provider AI service (aiService: three       *)
(* provider adapters behind one dispatch facade) and the App component     *)
(* (game session state, in-flight requests, save-slot sync to localStorage)*)
(*                                                                         *)
(* Two specifications share this module:                                   *)
(*   SpecFacade  one facade call at a time against a nondeterministic      *)
(*               upstream (transport rejection, HTTP status, reply body);  *)
(*   SpecApp     the App component as a state machine of user actions and  *)
(*               request completions, each followed by the save-sync       *)
(*               effect when one of its dependencies was set.              *)
(*                                                                         *)
(* Strings are sequences of tokens (words), so that template strings are   *)
(* concatenations and String.includes is a search.  An optional number     *)
(* (status, code) is a set: {} is undefined, {401} is 401.                 *)
(***************************************************************************)
EXTENDS Integers, Sequences, FiniteSets, TLC

VARIABLES
    \* ---- facade (aiService) --------------------------------------------
    fphase,        \* "idle" | "awaiting" | "done"
    fcall,         \* the facade call in progress: capability, provider, context
    fdirective,    \* the inventory line of the persona a chat call has built
    fupstream,     \* what the upstream answered to the adapter's request
    fadapter,      \* what the adapter returned or threw (before the catch block)
    fresult,       \* what the facade returned or threw
    adapterCalls,  \* adapter invocations made by the current facade call
    networkCalls,  \* network requests made by the current facade call
    \* ---- App component --------------------------------------------------
    gameState, history, chatMessages, usageStats,
    loading, imageLoading, chatLoading,
    textOnlyMode, showKeyModal, gameStarted,
    saves, currentSaveId,
    storage,       \* localStorage[STORAGE_KEY]: the last payload written
    quota,         \* capacity left to STORAGE_KEY in localStorage
    budget,        \* story and chat requests this run may issue
    pending,       \* requests in flight, each with the closure that awaits it
    issued,        \* requests issued so far (their ids)
    nextSaveId,    \* stands for crypto.randomUUID(): the next fresh slot id
    writes,        \* setItem attempts of the last save sync, in order
    crashed,       \* an exception escaped a React updater: the tree is unmounted
    \* ---- calculateEstimatedCost (aiService) -----------------------------
    costArgs,      \* the arguments of the call
    costResult,    \* what it returned; undefined before it has
    \* ---- the API key store (aiService) ----------------------------------
    keyStore,      \* localStorage under API_KEY_STORAGE_PREFIX: provider -> item
    keyLog         \* the calls of setStoredApiKey and clearAllApiKeys so far

facadeVars == <<fphase, fcall, fdirective, fupstream, fadapter, fresult, adapterCalls,
                networkCalls>>
appVars == <<gameState, history, chatMessages, usageStats, loading, imageLoading,
             chatLoading, textOnlyMode, showKeyModal, gameStarted, saves,
             currentSaveId, storage, quota, budget, pending, issued, nextSaveId, writes,
             crashed>>
costVars == <<costArgs, costResult>>
keyVars == <<keyStore, keyLog>>
vars == <<facadeVars, appVars, costVars, keyVars>>

-----------------------------------------------------------------------------
(* JavaScript values                                                        *)

Undefined == {}

\* a || b on optional numbers: undefined and 0 are falsy
OrNum(a, b) == IF a # Undefined /\ a # {0} THEN a ELSE b

\* a || b on strings: the empty string (and undefined) is falsy
OrStr(a, b) == IF a # <<>> THEN a ELSE b

\* String.prototype.toLowerCase, token by token
LowerTok(tok) ==
    CASE tok = "Permission"      -> "permission"
      [] tok = "Not Found"       -> "not found"
      [] tok = "API_KEY_INVALID" -> "api_key_invalid"
      [] tok = "Unauthorized"    -> "unauthorized"
      [] tok = "Rate Limited"    -> "rate limited"
      [] tok = "Network error"   -> "network error"
      [] tok = "API Error"       -> "api error"
      [] tok = "Unexpected token" -> "unexpected token"
      [] OTHER                   -> tok

toLowerCase(s) == [i \in DOMAIN s |-> LowerTok(s[i])]

\* String.prototype.includes
includes(s, needle) == \E i \in DOMAIN s : s[i] = needle

\* JSON values: t is the type, v the text of a string or the items of an
\* array, f the members of an object
JNull   == [t |-> "null", v |-> <<>>, f |-> <<>>]
JStr(s) == [t |-> "str",  v |-> s,    f |-> <<>>]
JArr(a) == [t |-> "arr",  v |-> a,    f |-> <<>>]
JNum    == [t |-> "num",  v |-> <<>>, f |-> <<>>]
JObj(m) == [t |-> "obj",  v |-> <<>>, f |-> m]
JUndef  == [t |-> "undefined", v |-> <<>>, f |-> <<>>]

\* ToBoolean: null, undefined and "" are falsy; arrays (also []) and objects are truthy
Truthy(x) ==
    \/ x.t \in {"arr", "obj", "num"}
    \/ x.t = "str" /\ x.v # <<>>

\* parsed.name: undefined when the member is absent or parsed is a primitive
\* (the caller has excluded null, on which the access throws)
Member(x, name) ==
    IF x.t = "obj" /\ name \in DOMAIN x.f THEN x.f[name] ELSE JUndef

-----------------------------------------------------------------------------
(* Errors                                                                   *)

\* new Error(message): no status, no code, no nested error
NewError(origin, name, message) ==
    [origin |-> origin, name |-> name, message |-> message,
     status |-> Undefined, code |-> Undefined,
     innerMessage |-> <<>>, innerCode |-> Undefined]

NoError == NewError("none", "none", <<>>)
NoEnvelope == [data |-> JUndef,
               usage |-> [inputTokens |-> {}, outputTokens |-> {},
                          isPremium |-> {}, provider |-> "none"]]

Return(env) == [kind |-> "ok", env |-> env, error |-> NoError]
Throw(e)    == [kind |-> "throw", env |-> NoEnvelope, error |-> e]
NoResult    == [kind |-> "none", env |-> NoEnvelope, error |-> NoError]

ApiKeyError == NewError("handler", "Error", <<"API_KEY_ERROR">>)

-----------------------------------------------------------------------------
(* aiService: error classification of the facade's catch block              *)

Supported == {"GEMINI", "OPENAI", "CLAUDE"}
Providers == Supported \cup {"UNSUPPORTED"}

handleGeminiError_Wrap(error) == Throw(NewError("handler", "Error", <<"Gemini Error">>))

\* a handler that also takes the HTTP status 401 for a key error
handleGeminiError_Status401(error) ==
    LET errorMessage == toLowerCase(OrStr(error.message, error.innerMessage))
        errorCode == OrNum(error.code, error.innerCode)
    IN  IF \/ errorCode = {403}
           \/ errorCode = {404}
           \/ error.status = {401}
           \/ includes(errorMessage, "permission")
           \/ includes(errorMessage, "not found")
           \/ includes(errorMessage, "api_key_invalid")
        THEN Throw(ApiKeyError)
        ELSE Throw(error)

handleGeminiError(error) ==
    LET errorMessage == toLowerCase(OrStr(error.message, error.innerMessage))
        errorCode == OrNum(error.code, error.innerCode)
    IN  IF \/ errorCode = {403}
           \/ errorCode = {404}
           \/ includes(errorMessage, "permission")
           \/ includes(errorMessage, "not found")
           \/ includes(errorMessage, "api_key_invalid")
        THEN Throw(ApiKeyError)
        ELSE Throw(error)

handleOpenAIError_AuthByText(error) ==
    IF error.status = {401} \/ includes(toLowerCase(error.message), "unauthorized")
    THEN Throw(ApiKeyError)
    ELSE Throw(error)

handleOpenAIError(error) ==
    IF error.status = {401} THEN Throw(ApiKeyError) ELSE Throw(error)

handleClaudeError(error) ==
    IF error.status = {401} THEN Throw(ApiKeyError) ELSE Throw(error)

\* geminiService, the module the App imports, classifies in the same way
handleGenAIError(error) ==
    LET errorMessage == toLowerCase(OrStr(error.message, error.innerMessage))
        errorCode == OrNum(error.code, error.innerCode)
    IN  IF \/ errorCode = {403}
           \/ errorCode = {404}
           \/ includes(errorMessage, "permission")
           \/ includes(errorMessage, "not found")
           \/ includes(errorMessage, "api_key_invalid")
        THEN Throw(ApiKeyError)
        ELSE Throw(error)

-----------------------------------------------------------------------------
(* What an upstream can answer                                              *)

\* the promise of fetch / of the SDK call rejects with error e
Rejected(e) == [kind |-> "reject", error |-> e, status |-> 0, statusText |-> <<>>,
                body |-> <<>>]
\* fetch resolves with response.ok false
HttpNotOk(status, statusText) ==
    [kind |-> "http", error |-> NoError, status |-> status, statusText |-> statusText,
     body |-> <<>>]
\* fetch resolves with response.ok true, or the SDK call resolves
Replied(body) == [kind |-> "reply", error |-> NoError, status |-> 200,
                  statusText |-> <<"OK">>, body |-> body]
NoUpstream == [kind |-> "none", error |-> NoError, status |-> 0, statusText |-> <<>>,
               body |-> <<>>]

\* Reply text: undefined, null, "", text that is no JSON, or the JSON text of a value
TUndefined == [t |-> "undefined", raw |-> <<>>, value |-> JUndef]
TNull      == [t |-> "nullval",   raw |-> <<>>, value |-> JUndef]
TEmpty     == [t |-> "empty",     raw |-> <<>>, value |-> JUndef]
TText(raw) == [t |-> "text",      raw |-> raw,  value |-> JUndef]
TJson(x)   == [t |-> "json",      raw |-> <<>>, value |-> x]

SyntaxError(message) == NewError("runtime", "SyntaxError", message)
TypeError == NewError("runtime", "TypeError", <<"Cannot read properties of undefined">>)

\* JSON.parse(text).  The argument is converted to a string first, so undefined
\* fails and null parses to null.  The message of the SyntaxError is
\* engine-defined: V8 quotes the offending text in it, older engines do not
\* (snippet tells which).
JSONParse(text, snippet) ==
    CASE text.t = "json"    -> [ok |-> TRUE, value |-> text.value, error |-> NoError]
      [] text.t = "nullval" -> [ok |-> TRUE, value |-> JNull, error |-> NoError]
      [] text.t = "text"    ->
            [ok |-> FALSE, value |-> JUndef,
             error |-> SyntaxError(<<"Unexpected token">> \o (IF snippet THEN text.raw ELSE <<>>))]
      [] OTHER              ->
            [ok |-> FALSE, value |-> JUndef,
             error |-> SyntaxError(<<"Unexpected end of JSON input">>)]

Fields == {"storyText", "choices", "inventory", "currentQuest", "visualPrompt",
           "worldStyle", "genre"}

\* the values a reply may give a field
FieldValues(name) ==
    CASE name \in {"choices", "inventory"} -> {JArr(<<>>), JArr(<<"a">>)}
      [] name = "currentQuest"             -> {JStr(<<>>), JStr(<<"X">>), JNull}
      [] OTHER                             -> {JStr(<<>>), JStr(<<"X">>)}

\* every object over a subset of the seven fields
ReplyObjects ==
    UNION { { JObj(m) : m \in { g \in [present -> UNION {FieldValues(n) : n \in present}] :
                                  \A n \in present : g[n] \in FieldValues(n) } } :
            present \in SUBSET Fields }

ReplyValues == ReplyObjects \cup {JNull, JNum, JStr(<<"X">>)}

ReplyTexts == {TUndefined, TNull, TEmpty, TText(<<"invalid json">>),
               TText(<<"Permission", "denied">>)} \cup {TJson(x) : x \in ReplyValues}

TokenPairs == {<<0, 0>>, <<3, 5>>}
UsageMetadata == {Undefined} \cup {{p} : p \in TokenPairs}

Body(json, pathOk, text, usage, snippet, image) ==
    [json |-> json, pathOk |-> pathOk, text |-> text, usage |-> usage,
     snippet |-> snippet, image |-> image]

-----------------------------------------------------------------------------
(* aiService: the story adapters                                            *)

Usage(inputTokens, outputTokens, isPremium, provider) ==
    [inputTokens |-> inputTokens, outputTokens |-> outputTokens,
     isPremium |-> isPremium, provider |-> provider]

\* metadata?.promptTokenCount || 0 and metadata?.candidatesTokenCount || 0
MetadataTokens(usage, i) ==
    IF usage = Undefined THEN {0} ELSE OrNum({(CHOOSE p \in usage : TRUE)[i]}, {0})

\* data.usage.prompt_tokens, where data.usage is there
UsageTokens(usage, i) == {(CHOOSE p \in usage : TRUE)[i]}

\* parsed.name ?? fallback: what || is often taken for
OrValue_Nullish(x, fallback) == IF x.t \in {"undefined", "null"} THEN fallback ELSE x

\* parsed.name || fallback
OrValue(x, fallback) == IF Truthy(x) THEN x ELSE fallback

geminiGenerateStory(u) ==
    IF u.kind = "reject" THEN Throw(u.error)
    ELSE
      LET text == IF u.body.text.t \in {"undefined", "nullval", "empty"}
                  THEN TJson(JObj(<<>>))            \* response.text || '{}'
                  ELSE u.body.text
          parsed == JSONParse(text, u.body.snippet)
      IN  IF ~parsed.ok THEN Throw(parsed.error)
          ELSE Return([data |-> parsed.value,
                       usage |-> Usage(MetadataTokens(u.body.usage, 1),
                                       MetadataTokens(u.body.usage, 2),
                                       Undefined, "GEMINI")])

openaiGenerateStory(u) ==
    IF u.kind = "reject" THEN Throw(u.error)
    ELSE IF u.kind = "http"
    THEN Throw(NewError("adapter", "Error", <<"OpenAI API error: ">> \o u.statusText))
    ELSE IF ~u.body.json THEN Throw(SyntaxError(<<"Unexpected token">>))   \* response.json()
    ELSE
      LET parsed == JSONParse(u.body.text, u.body.snippet)
          \* the try block: any throw inside it becomes 'Invalid response format'
          tryOk == u.body.pathOk /\ parsed.ok /\ parsed.value.t # "null"
          normalized == JObj([
              storyText    |-> OrValue(Member(parsed.value, "storyText"), JStr(<<"The story begins...">>)),
              choices      |-> OrValue(Member(parsed.value, "choices"), JArr(<<"Continue">>)),
              inventory    |-> OrValue(Member(parsed.value, "inventory"), JArr(<<>>)),
              currentQuest |-> OrValue(Member(parsed.value, "currentQuest"), JStr(<<"Unknown quest">>)),
              visualPrompt |-> OrValue(Member(parsed.value, "visualPrompt"), JStr(<<"A mysterious scene">>)),
              worldStyle   |-> OrValue(Member(parsed.value, "worldStyle"), JStr(<<"fantasy">>)),
              genre        |-> OrValue(Member(parsed.value, "genre"), JStr(<<"Fantasy">>))])
      IN  IF ~tryOk
          THEN Throw(NewError("adapter", "Error", <<"Invalid response format from OpenAI">>))
          ELSE IF u.body.usage = Undefined THEN Throw(TypeError)    \* data.usage.prompt_tokens
          ELSE Return([data |-> normalized,
                       usage |-> Usage(UsageTokens(u.body.usage, 1),
                                       UsageTokens(u.body.usage, 2),
                                       Undefined, "OPENAI")])

claudeGenerateStory(u) ==
    IF u.kind = "reject" THEN Throw(u.error)
    ELSE IF u.kind = "http"
    THEN Throw(NewError("adapter", "Error", <<"Claude API error: ">> \o u.statusText))
    ELSE IF ~u.body.json THEN Throw(SyntaxError(<<"Unexpected token">>))   \* response.json()
    ELSE
      LET parsed == JSONParse(u.body.text, u.body.snippet)
          tryOk == u.body.pathOk /\ parsed.ok /\ parsed.value.t # "null"
          normalized == JObj([
              storyText    |-> OrValue(Member(parsed.value, "storyText"), JStr(<<"The story begins...">>)),
              choices      |-> OrValue(Member(parsed.value, "choices"), JArr(<<"Continue">>)),
              inventory    |-> OrValue(Member(parsed.value, "inventory"), JArr(<<>>)),
              currentQuest |-> OrValue(Member(parsed.value, "currentQuest"), JStr(<<"Unknown quest">>)),
              visualPrompt |-> OrValue(Member(parsed.value, "visualPrompt"), JStr(<<"A mysterious scene">>)),
              worldStyle   |-> OrValue(Member(parsed.value, "worldStyle"), JStr(<<"fantasy">>)),
              genre        |-> OrValue(Member(parsed.value, "genre"), JStr(<<"Fantasy">>))])
      IN  IF ~tryOk
          THEN Throw(NewError("adapter", "Error", <<"Invalid response format from Claude">>))
          ELSE IF u.body.usage = Undefined THEN Throw(TypeError)    \* data.usage.input_tokens
          ELSE Return([data |-> normalized,
                       usage |-> Usage(UsageTokens(u.body.usage, 1),
                                       UsageTokens(u.body.usage, 2),
                                       Undefined, "CLAUDE")])

\* the switch with the cases of OpenAI and Claude exchanged
StoryAdapter_Swapped(provider, u) ==
    CASE provider = "GEMINI" -> geminiGenerateStory(u)
      [] provider = "OPENAI" -> claudeGenerateStory(u)
      [] provider = "CLAUDE" -> openaiGenerateStory(u)
      [] OTHER -> Throw(NewError("facade", "Error", <<"Unsupported provider: ", provider>>))

\* the try block of generateStoryBeat: the switch over the provider
StoryAdapter(provider, u) ==
    CASE provider = "GEMINI" -> geminiGenerateStory(u)
      [] provider = "OPENAI" -> openaiGenerateStory(u)
      [] provider = "CLAUDE" -> claudeGenerateStory(u)
      [] OTHER -> Throw(NewError("facade", "Error", <<"Unsupported provider: ", provider>>))

\* a catch block whose default case classifies instead of re-throwing
Classify_AuthDefault(provider, r) ==
    IF r.kind # "throw" THEN r
    ELSE CASE provider = "GEMINI" -> handleGeminiError(r.error)
           [] provider = "OPENAI" -> handleOpenAIError(r.error)
           [] provider = "CLAUDE" -> handleClaudeError(r.error)
           [] OTHER -> Throw(ApiKeyError)

\* the catch block shared by the three facade functions
Classify(provider, r) ==
    IF r.kind # "throw" THEN r
    ELSE CASE provider = "GEMINI" -> handleGeminiError(r.error)
           [] provider = "OPENAI" -> handleOpenAIError(r.error)
           [] provider = "CLAUDE" -> handleClaudeError(r.error)
           [] OTHER -> Throw(r.error)

generateStoryBeat(provider, u) == Classify(provider, StoryAdapter(provider, u))

-----------------------------------------------------------------------------
(* aiService: the image adapters                                            *)

\* fetch resolves with response.ok false; errorText is what response.text() gives
HttpNotOkText(status, statusText, errorText) ==
    [kind |-> "http", error |-> NoError, status |-> status, statusText |-> statusText,
     body |-> errorText]

\* quality: 'standard' | 'fast' = 'standard'
Qualities == {"standard", "fast"}

\* the quality chooses the wording of the prompt, and nothing else
fullPrompt(quality) == IF quality = "fast" THEN "Simple" ELSE "Art Style"

geminiGenerateImage(u, quality) ==
    IF u.kind = "reject" THEN Throw(u.error)
    ELSE
      LET imageData == IF u.body.image = Undefined THEN JUndef
                       ELSE JStr(<<"data:image/png;base64,", CHOOSE d \in u.body.image : TRUE>>)
      IN  Return([data |-> imageData,
                  usage |-> Usage(MetadataTokens(u.body.usage, 1),
                                  MetadataTokens(u.body.usage, 2),
                                  {FALSE}, "GEMINI")])

openaiGenerateImage(u, quality) ==
    IF u.kind = "reject" THEN Throw(u.error)
    ELSE IF u.kind = "http"
    THEN Throw(NewError("adapter", "Error",
                        <<"OpenAI API error: ">> \o u.statusText \o <<" - ">> \o u.body))
    ELSE IF ~u.body.json THEN Throw(SyntaxError(<<"Unexpected token">>))   \* response.json()
    ELSE IF ~u.body.pathOk THEN Throw(TypeError)                           \* data.data[0].url
    ELSE Return([data |-> IF u.body.image = Undefined THEN JUndef
                          ELSE JStr(<<CHOOSE d \in u.body.image : TRUE>>),
                 usage |-> Usage({0}, {0}, {TRUE}, "OPENAI")])

\* a Claude adapter that returns a placeholder picture
claudeGenerateImage_Placeholder ==
    Return([data |-> JStr(<<"placeholder.png">>), usage |-> Usage({0}, {0}, Undefined, "CLAUDE")])

\* no request is made: the result does not depend on any upstream
claudeGenerateImage ==
    Return([data |-> JUndef, usage |-> Usage({0}, {0}, Undefined, "CLAUDE")])

ImageAdapter(provider, u, quality) ==
    CASE provider = "GEMINI" -> geminiGenerateImage(u, quality)
      [] provider = "OPENAI" -> openaiGenerateImage(u, quality)
      [] provider = "CLAUDE" -> claudeGenerateImage
      [] OTHER -> Throw(NewError("facade", "Error", <<"Unsupported provider: ", provider>>))

generateImage(provider, u, quality) == Classify(provider, ImageAdapter(provider, u, quality))

-----------------------------------------------------------------------------
(* aiService: getChatResponse                                               *)

\* a reply text as the JavaScript value the adapter reads
TextValue(text) ==
    CASE text.t = "text"    -> JStr(text.raw)
      [] text.t = "empty"   -> JStr(<<>>)
      [] text.t = "nullval" -> JNull
      [] OTHER              -> JUndef

Apology == JStr(<<"I apologize, my vision is clouded...">>)

\* gameContext.inventory: a list of items, or undefined
Inventories == {Undefined, {<<>>}, {<<"lamp">>}, {<<"lamp", "key">>}}

\* items.join(', ')
RECURSIVE join(_)
join(items) ==
    IF Len(items) <= 1 THEN items
    ELSE <<Head(items), ", ">> \o join(Tail(items))

\* the line of the persona directive that lists the inventory
inventoryLine(items) == <<"Their inventory includes: ">> \o join(items) \o <<".">>
NoDirective == <<>>

\* aiService, all three branches: (gameContext.inventory || []).join(', ')
persona(inventory) ==
    inventoryLine(IF inventory = Undefined THEN <<>> ELSE CHOOSE items \in inventory : TRUE)

geminiChat(u) ==
    IF u.kind = "reject" THEN Throw(u.error)
    ELSE Return([data |-> OrValue(TextValue(u.body.text), Apology),
                 usage |-> Usage(MetadataTokens(u.body.usage, 1),
                                 MetadataTokens(u.body.usage, 2),
                                 Undefined, "GEMINI")])

openaiChat(u) ==
    IF u.kind = "reject" THEN Throw(u.error)
    ELSE IF u.kind = "http"
    THEN Throw(NewError("adapter", "Error", <<"OpenAI API error: ">> \o u.statusText))
    ELSE IF ~u.body.json THEN Throw(SyntaxError(<<"Unexpected token">>))
    ELSE IF ~u.body.pathOk \/ u.body.usage = Undefined THEN Throw(TypeError)
    ELSE Return([data |-> TextValue(u.body.text),
                 usage |-> Usage(UsageTokens(u.body.usage, 1),
                                 UsageTokens(u.body.usage, 2),
                                 Undefined, "OPENAI")])

claudeChat(u) ==
    IF u.kind = "reject" THEN Throw(u.error)
    ELSE IF u.kind = "http"
    THEN Throw(NewError("adapter", "Error", <<"Claude API error: ">> \o u.statusText))
    ELSE IF ~u.body.json THEN Throw(SyntaxError(<<"Unexpected token">>))
    ELSE IF ~u.body.pathOk \/ u.body.usage = Undefined THEN Throw(TypeError)
    ELSE Return([data |-> TextValue(u.body.text),
                 usage |-> Usage(UsageTokens(u.body.usage, 1),
                                 UsageTokens(u.body.usage, 2),
                                 Undefined, "CLAUDE")])

ChatAdapter(provider, u) ==
    CASE provider = "GEMINI" -> geminiChat(u)
      [] provider = "OPENAI" -> openaiChat(u)
      [] provider = "CLAUDE" -> claudeChat(u)
      [] OTHER -> Throw(NewError("facade", "Error", <<"Unsupported provider: ", provider>>))

getChatResponse(provider, u) == Classify(provider, ChatAdapter(provider, u))

\* geminiService.getChatResponse, the try block: gameContext.inventory.join(', ')
\* throws on an undefined inventory, before any request is made
geminiService_chat(u, inventory) ==
    IF inventory = Undefined THEN Throw(TypeError)
    ELSE IF u.kind = "reject" THEN Throw(u.error)
    ELSE Return([data |-> OrValue(TextValue(u.body.text), Apology),
                 usage |-> Usage(MetadataTokens(u.body.usage, 1),
                                 MetadataTokens(u.body.usage, 2),
                                 Undefined, "undefined")])

\* and its catch block
geminiService_getChatResponse(u, inventory) ==
    LET r == geminiService_chat(u, inventory)
    IN  IF r.kind = "throw" THEN handleGenAIError(r.error) ELSE r

-----------------------------------------------------------------------------
(* aiService: calculateEstimatedCost                                        *)

\* the price table, in units of 10^-8 dollars so that every rate is a whole
\* number: 0.1 / 1000000 dollars per token is 10, 0.0008 dollars per image is
\* 80000 (the code computes in floating point; the model computes exactly)
PRICING ==
    [GEMINI_FLASH  |-> [input |-> 10,   output |-> 40,   image |-> 80000],
     GEMINI_PRO    |-> [input |-> 125,  output |-> 500,  image |-> 4000000],
     OPENAI_GPT4   |-> [input |-> 1000, output |-> 3000, image |-> 4000000],
     OPENAI_GPT3_5 |-> [input |-> 50,   output |-> 150,  image |-> 2000000],
     CLAUDE_HAIKU  |-> [input |-> 25,   output |-> 125,  image |-> 3000000],
     CLAUDE_SONNET |-> [input |-> 300,  output |-> 1500, image |-> 6000000]]

\* modelType: 'flash' | 'pro' | 'standard'
ModelTypes == {"flash", "pro", "standard"}

\* premium images at twice the image rate
calculateEstimatedCost_PremiumTwice(inputTokens, outputTokens, images, premiumImages, provider, modelType) ==
    LET pricing ==
          CASE provider = "GEMINI" ->
                 IF modelType = "pro" THEN PRICING.GEMINI_PRO ELSE PRICING.GEMINI_FLASH
            [] provider = "OPENAI" ->
                 IF modelType = "pro" THEN PRICING.OPENAI_GPT4 ELSE PRICING.OPENAI_GPT3_5
            [] provider = "CLAUDE" ->
                 IF modelType = "pro" THEN PRICING.CLAUDE_SONNET ELSE PRICING.CLAUDE_HAIKU
            [] OTHER -> PRICING.GEMINI_FLASH
    IN  inputTokens * pricing.input + outputTokens * pricing.output
        + images * pricing.image + premiumImages * 2 * pricing.image

\* the default case of the switch honouring the tier
calculateEstimatedCost_DefaultByTier(inputTokens, outputTokens, images, premiumImages, provider, modelType) ==
    LET pricing ==
          CASE provider = "OPENAI" ->
                 IF modelType = "pro" THEN PRICING.OPENAI_GPT4 ELSE PRICING.OPENAI_GPT3_5
            [] provider = "CLAUDE" ->
                 IF modelType = "pro" THEN PRICING.CLAUDE_SONNET ELSE PRICING.CLAUDE_HAIKU
            [] OTHER ->
                 IF modelType = "pro" THEN PRICING.GEMINI_PRO ELSE PRICING.GEMINI_FLASH
    IN  inputTokens * pricing.input + outputTokens * pricing.output
        + images * pricing.image + premiumImages * pricing.image

\* a request fee of one input token on top of the four products
calculateEstimatedCost_RequestFee(inputTokens, outputTokens, images, premiumImages, provider, modelType) ==
    LET pricing ==
          CASE provider = "GEMINI" ->
                 IF modelType = "pro" THEN PRICING.GEMINI_PRO ELSE PRICING.GEMINI_FLASH
            [] provider = "OPENAI" ->
                 IF modelType = "pro" THEN PRICING.OPENAI_GPT4 ELSE PRICING.OPENAI_GPT3_5
            [] provider = "CLAUDE" ->
                 IF modelType = "pro" THEN PRICING.CLAUDE_SONNET ELSE PRICING.CLAUDE_HAIKU
            [] OTHER -> PRICING.GEMINI_FLASH
    IN  pricing.input + inputTokens * pricing.input + outputTokens * pricing.output
        + images * pricing.image + premiumImages * pricing.image

calculateEstimatedCost(inputTokens, outputTokens, images, premiumImages, provider, modelType) ==
    LET pricing ==
          CASE provider = "GEMINI" ->
                 IF modelType = "pro" THEN PRICING.GEMINI_PRO ELSE PRICING.GEMINI_FLASH
            [] provider = "OPENAI" ->
                 IF modelType = "pro" THEN PRICING.OPENAI_GPT4 ELSE PRICING.OPENAI_GPT3_5
            [] provider = "CLAUDE" ->
                 IF modelType = "pro" THEN PRICING.CLAUDE_SONNET ELSE PRICING.CLAUDE_HAIKU
            [] OTHER -> PRICING.GEMINI_FLASH
        textCost == inputTokens * pricing.input + outputTokens * pricing.output
        imageCost == images * pricing.image + premiumImages * pricing.image
    IN  textCost + imageCost

-----------------------------------------------------------------------------
(* The upstreams: every answer a request can get                            *)

UpstreamMessages == {<<>>, <<"Network error">>, <<"Permission", "denied">>,
                     <<"model", "Not Found">>, <<"Rate Limited">>}

\* errors a transport or an SDK rejects with: they may carry a status, a code
\* and a nested error ({error: {code, message}})
UpstreamErrors ==
    { [origin |-> "upstream", name |-> "Error", message |-> m, status |-> st,
       code |-> c, innerMessage |-> im, innerCode |-> ic] :
        m \in UpstreamMessages, st \in {Undefined, {401}, {500}},
        c \in {Undefined, {401}, {403}, {404}, {429}},
        im \in {<<>>, <<"API_KEY_INVALID">>}, ic \in {Undefined, {403}} }

HttpStatuses == {401, 404, 429, 500}
StatusTexts == {<<>>, <<"Unauthorized">>, <<"Rate Limited">>, <<"Not Found">>,
                <<"Internal Server Error">>}

FetchProviders == {"OPENAI", "CLAUDE"}

\* a body the fetch-based adapters cannot take apart
BrokenBodies ==
    {Body(FALSE, FALSE, TUndefined, Undefined, FALSE, Undefined)}
    \cup {Body(TRUE, FALSE, TUndefined, usage, FALSE, Undefined) : usage \in UsageMetadata}

StoryBodies ==
    { Body(TRUE, TRUE, text, usage, snippet, Undefined) :
        text \in ReplyTexts, usage \in UsageMetadata, snippet \in BOOLEAN }

StoryOutcomes(provider) ==
    {Rejected(e) : e \in UpstreamErrors}
    \cup {Replied(b) : b \in {x \in StoryBodies : x.snippet => x.text.t = "text"}}
    \cup IF provider \in FetchProviders
         THEN {HttpNotOk(st, txt) : st \in HttpStatuses, txt \in StatusTexts}
              \cup {Replied(b) : b \in BrokenBodies}
         ELSE {}

ImageData == {Undefined, {"<image>"}}

ImageOutcomes(provider) ==
    {Rejected(e) : e \in UpstreamErrors}
    \cup {Replied(Body(TRUE, TRUE, TUndefined, usage, FALSE, image)) :
            usage \in UsageMetadata, image \in ImageData}
    \cup IF provider \in FetchProviders
         THEN {HttpNotOkText(st, txt, <<"{error}">>) : st \in HttpStatuses, txt \in StatusTexts}
              \cup {Replied(b) : b \in BrokenBodies}
         ELSE {}

ChatTexts == {TUndefined, TNull, TEmpty, TText(<<"Hello, brave adventurer!">>)}

ChatOutcomes(provider) ==
    {Rejected(e) : e \in UpstreamErrors}
    \cup {Replied(Body(TRUE, TRUE, text, usage, FALSE, Undefined)) :
            text \in ChatTexts, usage \in UsageMetadata}
    \cup IF provider \in FetchProviders
         THEN {HttpNotOk(st, txt) : st \in HttpStatuses, txt \in StatusTexts}
              \cup {Replied(b) : b \in BrokenBodies}
         ELSE {}

-----------------------------------------------------------------------------
(* The facade as a state machine: a call, the upstream's answer, the return *)

\* quality is the argument of generateImage ('standard' where none is passed),
\* inventory the inventory of the context a chat call is given
CallWith(cap, provider, quality, inventory) ==
    [cap |-> cap, provider |-> provider, quality |-> quality, inventory |-> inventory]
Call(cap, provider) == CallWith(cap, provider, "standard", Undefined)
NoCall == Call("none", "none")

FacadeInit ==
    /\ fphase = "idle"
    /\ fcall = NoCall
    /\ fdirective = NoDirective
    /\ fupstream = NoUpstream
    /\ fadapter = NoResult
    /\ fresult = NoResult
    /\ adapterCalls = 0
    /\ networkCalls = 0

\* the synchronous part of a facade call, up to the adapter's await
Begin(cap, provider, quality, inventory) ==
    /\ fphase = "idle"
    /\ fcall' = CallWith(cap, provider, quality, inventory)
    /\ fdirective' = IF cap = "chat" /\ provider \in Supported THEN persona(inventory)
                                                              ELSE NoDirective
    /\ fupstream' = NoUpstream
    /\ IF provider \in Supported /\ ~(cap = "image" /\ provider = "CLAUDE")
       THEN /\ fphase' = "awaiting"
            /\ adapterCalls' = 1
            /\ networkCalls' = 1
            /\ fadapter' = NoResult
            /\ fresult' = NoResult
       ELSE \* no request goes out: the adapter (if any) returns at once
            /\ fphase' = "done"
            /\ adapterCalls' = IF provider \in Supported THEN 1 ELSE 0
            /\ networkCalls' = 0
            /\ fadapter' = CASE cap = "story" -> StoryAdapter(provider, NoUpstream)
                             [] cap = "image" -> ImageAdapter(provider, NoUpstream, quality)
                             [] OTHER         -> ChatAdapter(provider, NoUpstream)
            /\ fresult' = CASE cap = "story" -> generateStoryBeat(provider, NoUpstream)
                            [] cap = "image" -> generateImage(provider, NoUpstream, quality)
                            [] OTHER         -> getChatResponse(provider, NoUpstream)

CallGenerateStoryBeat ==
    \E p \in Providers : Begin("story", p, "standard", Undefined) /\ UNCHANGED <<appVars, costVars, keyVars>>
CallGenerateImage ==
    \E p \in Providers, q \in Qualities : Begin("image", p, q, Undefined) /\ UNCHANGED <<appVars, costVars, keyVars>>
CallGetChatResponse ==
    \E p \in Providers, inv \in Inventories :
        Begin("chat", p, "standard", inv) /\ UNCHANGED <<appVars, costVars, keyVars>>

\* the App's call of geminiService.getChatResponse(message, gameContext)
CallServiceChat ==
    \E inv \in Inventories :
        /\ fphase = "idle"
        /\ fcall' = CallWith("serviceChat", "GEMINI", "standard", inv)
        /\ fupstream' = NoUpstream
        /\ adapterCalls' = 0
        /\ IF inv # Undefined
           THEN /\ fphase' = "awaiting"
                /\ fdirective' = inventoryLine(CHOOSE items \in inv : TRUE)
                /\ networkCalls' = 1
                /\ fadapter' = NoResult
                /\ fresult' = NoResult
           ELSE \* the directive is never built
                /\ fphase' = "done"
                /\ fdirective' = NoDirective
                /\ networkCalls' = 0
                /\ fadapter' = geminiService_chat(NoUpstream, inv)
                /\ fresult' = geminiService_getChatResponse(NoUpstream, inv)
        /\ UNCHANGED <<appVars, costVars, keyVars>>

ServiceChatAnswered ==
    /\ fphase = "awaiting" /\ fcall.cap = "serviceChat"
    /\ \E u \in ChatOutcomes("GEMINI") :
         /\ fupstream' = u
         /\ fadapter' = geminiService_chat(u, fcall.inventory)
         /\ fresult' = geminiService_getChatResponse(u, fcall.inventory)
    /\ fphase' = "done"
    /\ UNCHANGED <<fcall, fdirective, adapterCalls, networkCalls, appVars, costVars, keyVars>>

\* the upstream answers; the adapter finishes and the facade returns or throws
StoryAnswered ==
    /\ fphase = "awaiting" /\ fcall.cap = "story"
    /\ \E u \in StoryOutcomes(fcall.provider) :
         /\ fupstream' = u
         /\ fadapter' = StoryAdapter(fcall.provider, u)
         /\ fresult' = generateStoryBeat(fcall.provider, u)
    /\ fphase' = "done"
    /\ UNCHANGED <<fcall, fdirective, adapterCalls, networkCalls, appVars, costVars, keyVars>>

ImageAnswered ==
    /\ fphase = "awaiting" /\ fcall.cap = "image"
    /\ \E u \in ImageOutcomes(fcall.provider) :
         /\ fupstream' = u
         /\ fadapter' = ImageAdapter(fcall.provider, u, fcall.quality)
         /\ fresult' = generateImage(fcall.provider, u, fcall.quality)
    /\ fphase' = "done"
    /\ UNCHANGED <<fcall, fdirective, adapterCalls, networkCalls, appVars, costVars, keyVars>>

ChatAnswered ==
    /\ fphase = "awaiting" /\ fcall.cap = "chat"
    /\ \E u \in ChatOutcomes(fcall.provider) :
         /\ fupstream' = u
         /\ fadapter' = ChatAdapter(fcall.provider, u)
         /\ fresult' = getChatResponse(fcall.provider, u)
    /\ fphase' = "done"
    /\ UNCHANGED <<fcall, fdirective, adapterCalls, networkCalls, appVars, costVars, keyVars>>

\* the caller has taken the result: the facade keeps no state between calls
FacadeDone ==
    /\ fphase = "done"
    /\ fphase' = "idle"
    /\ fcall' = NoCall
    /\ fdirective' = NoDirective
    /\ fupstream' = NoUpstream
    /\ fadapter' = NoResult
    /\ fresult' = NoResult
    /\ adapterCalls' = 0
    /\ networkCalls' = 0
    /\ UNCHANGED <<appVars, costVars, keyVars>>

FacadeNext ==
    \/ CallGenerateStoryBeat
    \/ CallGenerateImage
    \/ CallGetChatResponse
    \/ CallServiceChat
    \/ ServiceChatAnswered
    \/ StoryAnswered
    \/ ImageAnswered
    \/ ChatAnswered
    \/ FacadeDone

-----------------------------------------------------------------------------
(* App: data                                                                *)
(*                                                                          *)
(* A GameState is known by the request that produced it: beat is the id of  *)
(* the story request (every reply is a new object), sid the save id of the  *)
(* session that issued the request.  lastUpdated (a timestamp) is left out. *)
(* Money is counted in units of 10^-8 dollar, so that the rates are whole.  *)

MaxRequests == 2      \* story and chat requests a run of the whole App may issue
MaxPlayRequests == 3  \* and a run of the play loop alone

NullState == [sid |-> 0, beat |-> 0]
NoSave == 0          \* currentSaveId === null

initialUsageStats ==
    [inputTokens |-> 0, outputTokens |-> 0, imageCount |-> 0,
     premiumImageCount |-> 0, estimatedCost |-> 0]

\* geminiService PRICING, per token and per image
FLASH_TEXT_input == 10
FLASH_TEXT_output == 40
PRO_TEXT_input == 125
PRO_TEXT_output == 500
FLASH_IMAGE == 80000
PRO_IMAGE == 4000000

\* geminiService.calculateEstimatedCost, the one App imports
calculateEstimatedCostGemini(inputTokens, outputTokens, images, premiumImages, modelType) ==
    LET textCost == IF modelType = "pro"
                    THEN inputTokens * PRO_TEXT_input + outputTokens * PRO_TEXT_output
                    ELSE inputTokens * FLASH_TEXT_input + outputTokens * FLASH_TEXT_output
        imageCost == images * FLASH_IMAGE + premiumImages * PRO_IMAGE
    IN  textCost + imageCost

updateUsage_Overwrite(prev, input, output, images, premiumImages, modelType) ==
    [inputTokens |-> input, outputTokens |-> output, imageCount |-> images,
     premiumImageCount |-> premiumImages,
     estimatedCost |-> calculateEstimatedCostGemini(input, output, images, premiumImages, modelType)]

updateUsage(prev, input, output, images, premiumImages, modelType) ==
    LET newCost == calculateEstimatedCostGemini(input, output, images, premiumImages, modelType)
    IN  [inputTokens |-> prev.inputTokens + input,
         outputTokens |-> prev.outputTokens + output,
         imageCount |-> prev.imageCount + images,
         premiumImageCount |-> prev.premiumImageCount + premiumImages,
         estimatedCost |-> prev.estimatedCost + newCost]

HistoryItem(state, choice, imageUrl) ==
    [text |-> state.beat, choice |-> choice, imageUrl |-> imageUrl, state |-> state]

ChatMessage(role, sid) == [role |-> role, sid |-> sid]

-----------------------------------------------------------------------------
(* App: the save-sync effect and localStorage                               *)

\* the size of JSON.stringify(slots): a slot, a history entry and a chat
\* message weigh 1 each, an image (a base64 data URL) 3
EntrySize(h) == 1 + (IF h.imageUrl = Undefined THEN 0 ELSE 3)

RECURSIVE SumSeq(_)
SumSeq(q) == IF q = <<>> THEN 0 ELSE Head(q) + SumSeq(Tail(q))

SlotSize(s) ==
    1 + SumSeq([i \in DOMAIN s.history |-> EntrySize(s.history[i])]) + Len(s.chatMessages)

Size(slots) == SumSeq([i \in DOMAIN slots |-> SlotSize(slots[i])])

\* localStorage.setItem(STORAGE_KEY, ...) throws QuotaExceededError when this fails
Fits(slots) == Size(slots) <= quota

\* a sync that stores the history as it is in memory
leanHistory_KeepAll(hist) == hist

\* history.map((item, index) => ({...item, imageUrl: index === 0 ? item.imageUrl : undefined}))
leanHistory(hist) ==
    [index \in DOMAIN hist |->
        [hist[index] EXCEPT !.imageUrl = IF index = 1 THEN hist[index].imageUrl ELSE Undefined]]

superLeanSaves_KeepLatest(updated) ==
    [i \in DOMAIN updated |-> [updated[i] EXCEPT !.history = leanHistory(updated[i].history)]]

\* updated.map(s => ({...s, history: s.history.map(h => ({...h, imageUrl: undefined}))}))
superLeanSaves(updated) ==
    [i \in DOMAIN updated |->
        [updated[i] EXCEPT !.history =
            [j \in DOMAIN updated[i].history |->
                [updated[i].history[j] EXCEPT !.imageUrl = Undefined]]]]

Write(op, payload, ok) == [op |-> op, payload |-> payload, ok |-> ok]

\* The effect of lines 65-102 with the state of the render it runs after.
\* Gives the next saves and storage, the setItem attempts, and whether the
\* updater threw.
SaveSync(gs, hist, chat, usage, started, saveId, prevSaves) ==
    IF ~(started /\ gs # NullState /\ saveId # NoSave)
    THEN [saves |-> prevSaves, storage |-> storage, writes |-> <<>>, threw |-> FALSE]
    ELSE
      LET updated == [i \in DOMAIN prevSaves |->
                        IF prevSaves[i].id = saveId
                        THEN [prevSaves[i] EXCEPT !.gameState = gs,
                                                  !.history = leanHistory(hist),
                                                  !.chatMessages = chat,
                                                  !.usageStats = usage]
                        ELSE prevSaves[i]]
          lean == superLeanSaves(updated)
      IN  IF Fits(updated)
          THEN [saves |-> updated, storage |-> updated,
                writes |-> <<Write("sync", updated, TRUE)>>, threw |-> FALSE]
          ELSE IF Fits(lean)
          THEN [saves |-> updated, storage |-> lean,
                writes |-> <<Write("sync", updated, FALSE), Write("sync", lean, TRUE)>>,
                threw |-> FALSE]
          ELSE \* the second setItem is in no try block
               [saves |-> prevSaves, storage |-> storage,
                writes |-> <<Write("sync", updated, FALSE), Write("sync", lean, FALSE)>>,
                threw |-> TRUE]

-----------------------------------------------------------------------------
(* App: handlers.  An action is one synchronous run of a handler or of the  *)
(* continuation of an await, with its state updates batched, followed by    *)
(* the render and, when the run set one of its dependencies, the save-sync  *)
(* effect.                                                                  *)

Genres == {"High Fantasy"}
\* the usage a reply reports to the App: (inputTokens, outputTokens)
AppTokenPairs == {<<3, 5>>}
Choices == {"left"}
ErrorKinds == {"API_KEY_ERROR", "other"}

\* a request in flight and what the closure awaiting it captured
\* a request that does not carry the state it is made for
Request_NoState(rid, kind, op, sid, choice, textOnly, state) ==
    [rid |-> rid, kind |-> kind, op |-> op, sid |-> sid, choice |-> choice,
     textOnly |-> textOnly, state |-> NullState]

Request(rid, kind, op, sid, choice, textOnly, state) ==
    [rid |-> rid, kind |-> kind, op |-> op, sid |-> sid, choice |-> choice,
     textOnly |-> textOnly, state |-> state]

\* the render after a handler, and the effect when a dependency was set
Render(depsSet, prevSaves) ==
    LET r == IF depsSet
             THEN SaveSync(gameState', history', chatMessages', usageStats',
                           gameStarted', currentSaveId', prevSaves)
             ELSE [saves |-> prevSaves, storage |-> storage, writes |-> <<>>,
                   threw |-> FALSE]
    IN  /\ saves' = r.saves
        /\ storage' = r.storage
        /\ writes' = r.writes
        /\ crashed' = r.threw

\* the key modal is a full-screen overlay of the game screen: no button under
\* it can be clicked
GameScreen == ~crashed /\ gameStarted
StartScreen == ~crashed /\ ~gameStarted
Clickable == GameScreen /\ ~showKeyModal

\* a handler that leaves the spinner of the story on
handleError_KeepLoading(kind) ==
    /\ showKeyModal' = (IF kind = "API_KEY_ERROR" THEN TRUE ELSE showKeyModal)
    /\ loading' = loading
    /\ imageLoading' = FALSE
    /\ chatLoading' = FALSE

\* handleError (lines 141-150)
handleError(kind) ==
    /\ showKeyModal' = (IF kind = "API_KEY_ERROR" THEN TRUE ELSE showKeyModal)
    /\ loading' = FALSE
    /\ imageLoading' = FALSE
    /\ chatLoading' = FALSE

startGame ==
    /\ UNCHANGED <<facadeVars, costVars, keyVars>>
    /\ StartScreen
    /\ issued < budget
    /\ \E genre \in Genres :
         pending' = pending \cup
             {Request(issued + 1, "story", "start", nextSaveId, genre, textOnlyMode, NullState)}
    /\ issued' = issued + 1
    /\ loading' = TRUE
    /\ gameStarted' = TRUE
    /\ currentSaveId' = nextSaveId
    /\ nextSaveId' = nextSaveId + 1
    /\ usageStats' = initialUsageStats
    /\ UNCHANGED <<gameState, history, chatMessages, imageLoading, chatLoading,
                   textOnlyMode, showKeyModal, quota, budget>>
    /\ Render(TRUE, saves)

loadSave ==
    /\ UNCHANGED <<facadeVars, costVars, keyVars>>
    /\ StartScreen
    /\ \E i \in DOMAIN saves :
         /\ gameState' = saves[i].gameState
         /\ history' = saves[i].history
         /\ chatMessages' = saves[i].chatMessages
         /\ usageStats' = saves[i].usageStats
         /\ currentSaveId' = saves[i].id
    /\ gameStarted' = TRUE
    /\ UNCHANGED <<loading, imageLoading, chatLoading, textOnlyMode, showKeyModal,
                   quota, budget, pending, issued, nextSaveId>>
    /\ Render(TRUE, saves)

deleteSave ==
    /\ UNCHANGED <<facadeVars, costVars, keyVars>>
    /\ StartScreen
    /\ \E i \in DOMAIN saves :
         LET id == saves[i].id
             filtered == SelectSeq(saves, LAMBDA s : s.id # id)
         IN  \* setSaves(prev => ...): the setItem in the updater is in no try block
             /\ IF Fits(filtered)
                THEN saves' = filtered /\ storage' = filtered /\ crashed' = FALSE
                     /\ writes' = <<Write("delete", filtered, TRUE)>>
                ELSE UNCHANGED <<saves, storage>> /\ crashed' = TRUE
                     /\ writes' = <<Write("delete", filtered, FALSE)>>
             /\ IF currentSaveId = id
                THEN /\ gameStarted' = FALSE
                     /\ gameState' = NullState
                     /\ history' = <<>>
                     /\ chatMessages' = <<>>
                     /\ usageStats' = initialUsageStats
                     /\ currentSaveId' = NoSave
                ELSE UNCHANGED <<gameStarted, gameState, history, chatMessages,
                                 usageStats, currentSaveId>>
    /\ UNCHANGED <<loading, imageLoading, chatLoading, textOnlyMode, showKeyModal,
                   quota, budget, pending, issued, nextSaveId>>

\* the EXIT button: setGameStarted(false) and nothing else
exit ==
    /\ UNCHANGED <<facadeVars, costVars, keyVars>>
    /\ Clickable
    /\ gameStarted' = FALSE
    /\ UNCHANGED <<gameState, history, chatMessages, usageStats, loading, imageLoading,
                   chatLoading, textOnlyMode, showKeyModal, currentSaveId, quota, budget,
                   pending, issued, nextSaveId>>
    /\ Render(TRUE, saves)

\* the TEXT-ONLY checkbox
toggleTextOnly ==
    /\ UNCHANGED <<facadeVars, costVars, keyVars>>
    /\ Clickable
    /\ textOnlyMode' = ~textOnlyMode
    /\ UNCHANGED <<gameState, history, chatMessages, usageStats, loading, imageLoading,
                   chatLoading, showKeyModal, gameStarted, currentSaveId, quota, budget,
                   pending, issued, nextSaveId>>
    /\ Render(FALSE, saves)

\* the RESET button of the billing panel: setUsageStats(initialUsageStats)
resetUsage ==
    /\ UNCHANGED <<facadeVars, costVars, keyVars>>
    /\ Clickable
    /\ usageStats' = initialUsageStats
    /\ UNCHANGED <<gameState, history, chatMessages, loading, imageLoading,
                   chatLoading, textOnlyMode, showKeyModal, gameStarted, currentSaveId,
                   quota, budget, pending, issued, nextSaveId>>
    /\ Render(usageStats # initialUsageStats, saves)

\* handleKeySelection, when the key dialog resolves
handleKeySelection ==
    /\ UNCHANGED <<facadeVars, costVars, keyVars>>
    /\ GameScreen
    /\ showKeyModal
    /\ showKeyModal' = FALSE
    /\ UNCHANGED <<gameState, history, chatMessages, usageStats, loading, imageLoading,
                   chatLoading, textOnlyMode, gameStarted, currentSaveId, quota, budget,
                   pending, issued, nextSaveId>>
    /\ Render(FALSE, saves)

\* a choice button: rendered only while !loading && gameState?.choices
makeChoice ==
    /\ UNCHANGED <<facadeVars, costVars, keyVars>>
    /\ Clickable
    /\ ~loading
    /\ gameState # NullState
    /\ issued < budget
    /\ \E choice \in Choices :
         pending' = pending \cup
             {Request(issued + 1, "story", "choice", currentSaveId, choice, textOnlyMode,
                      NullState)}
    /\ issued' = issued + 1
    /\ loading' = TRUE
    /\ UNCHANGED <<gameState, history, chatMessages, usageStats, imageLoading,
                   chatLoading, textOnlyMode, showKeyModal, gameStarted, currentSaveId,
                   quota, budget, nextSaveId>>
    /\ Render(FALSE, saves)

\* Enter in the chat box or its send button
sendChatMessage ==
    /\ UNCHANGED <<facadeVars, costVars, keyVars>>
    /\ GameScreen
    /\ gameState # NullState
    /\ ~chatLoading
    /\ issued < budget
    /\ chatMessages' = Append(chatMessages, ChatMessage("user", currentSaveId))
    /\ chatLoading' = TRUE
    /\ pending' = pending \cup
           {Request(issued + 1, "chat", "chat", currentSaveId, "", textOnlyMode, gameState)}
    /\ issued' = issued + 1
    /\ UNCHANGED <<gameState, history, usageStats, loading, imageLoading, textOnlyMode,
                   showKeyModal, gameStarted, currentSaveId, quota, budget, nextSaveId>>
    /\ Render(TRUE, saves)

-----------------------------------------------------------------------------
(* App: the continuations of the awaits in startGame, makeChoice,           *)
(* updateImage and sendChatMessage.  A closure keeps the textOnlyMode of    *)
(* the render that created it; functional updates see the current state.    *)

PendingOf(kind) == {r \in pending : r.kind = kind}

\* generateStoryBeat resolved (startGame lines 170-190, makeChoice lines 254-261)
storyResolved ==
    /\ UNCHANGED <<facadeVars, costVars, keyVars>>
    /\ ~crashed
    /\ \E r \in PendingOf("story"), tokens \in AppTokenPairs :
         LET data == [sid |-> r.sid, beat |-> r.rid]
             newSlot == [id |-> r.sid, name |-> r.choice, genre |-> r.choice,
                         gameState |-> data, history |-> <<>>, chatMessages |-> <<>>,
                         usageStats |-> initialUsageStats]
             label == IF r.op = "start"
                      THEN (IF r.textOnly THEN "Arrival" ELSE "The Beginning")
                      ELSE r.choice
         IN  /\ gameState' = data
             /\ usageStats' = updateUsage(usageStats, tokens[1], tokens[2], 0, 0, "flash")
             /\ IF r.textOnly
                THEN /\ history' = <<HistoryItem(data, label, Undefined)>> \o history
                     /\ loading' = FALSE
                     /\ pending' = pending \ {r}
                     /\ UNCHANGED imageLoading
                ELSE \* updateImage runs up to its await
                     /\ imageLoading' = TRUE
                     /\ pending' = (pending \ {r}) \cup
                            {Request(r.rid, "image", r.op, r.sid, label, r.textOnly, data)}
                     /\ UNCHANGED <<history, loading>>
             /\ UNCHANGED <<chatMessages, chatLoading, textOnlyMode, showKeyModal,
                            gameStarted, currentSaveId, quota, budget, issued, nextSaveId>>
             /\ Render(TRUE, IF r.op = "start" THEN <<newSlot>> \o saves ELSE saves)

\* generateStoryBeat rejected: the catch blocks of startGame and makeChoice
storyRejected ==
    /\ UNCHANGED <<facadeVars, costVars, keyVars>>
    /\ ~crashed
    /\ \E r \in PendingOf("story"), kind \in ErrorKinds :
         /\ handleError(kind)
         /\ pending' = pending \ {r}
    /\ UNCHANGED <<gameState, history, chatMessages, usageStats, textOnlyMode,
                   gameStarted, currentSaveId, quota, budget, issued, nextSaveId>>
    /\ Render(FALSE, saves)

\* generateImage resolved (updateImage lines 229-245); useHighRes is never set
imageResolved ==
    /\ UNCHANGED <<facadeVars, costVars, keyVars>>
    /\ ~crashed
    /\ UNCHANGED <<gameState, chatMessages, chatLoading, textOnlyMode, showKeyModal,
                   gameStarted, currentSaveId, quota, budget, issued, nextSaveId>>
    /\ \E r \in PendingOf("image"), image \in ImageData, tokens \in AppTokenPairs :
         /\ IF image # Undefined
            THEN /\ history' = <<HistoryItem(r.state, r.choice, image)>> \o history
                 /\ usageStats' = updateUsage(usageStats, tokens[1], tokens[2], 1, 0, "flash")
            ELSE UNCHANGED <<history, usageStats>>
         /\ pending' = pending \ {r}
         /\ Render(image # Undefined, saves)
    \* the finally block
    /\ imageLoading' = FALSE
    /\ loading' = FALSE

\* generateImage rejected: handleError, then the finally block
imageRejected ==
    /\ UNCHANGED <<facadeVars, costVars, keyVars>>
    /\ ~crashed
    /\ \E r \in PendingOf("image"), kind \in ErrorKinds :
         /\ handleError(kind)
         /\ pending' = pending \ {r}
    /\ UNCHANGED <<gameState, history, chatMessages, usageStats, textOnlyMode,
                   gameStarted, currentSaveId, quota, budget, issued, nextSaveId>>
    /\ Render(FALSE, saves)

\* getChatResponse resolved (sendChatMessage lines 275-276, 280)
chatResolved ==
    /\ UNCHANGED <<facadeVars, costVars, keyVars>>
    /\ ~crashed
    /\ \E r \in PendingOf("chat"), tokens \in AppTokenPairs :
         /\ chatMessages' = Append(chatMessages, ChatMessage("model", r.sid))
         /\ usageStats' = updateUsage(usageStats, tokens[1], tokens[2], 0, 0, "pro")
         /\ pending' = pending \ {r}
    /\ chatLoading' = FALSE
    /\ UNCHANGED <<gameState, history, loading, imageLoading, textOnlyMode, showKeyModal,
                   gameStarted, currentSaveId, quota, budget, issued, nextSaveId>>
    /\ Render(TRUE, saves)

\* getChatResponse rejected: handleError, then the finally block
chatRejected ==
    /\ UNCHANGED <<facadeVars, costVars, keyVars>>
    /\ ~crashed
    /\ \E r \in PendingOf("chat"), kind \in ErrorKinds :
         /\ handleError(kind)
         /\ pending' = pending \ {r}
    /\ UNCHANGED <<gameState, history, chatMessages, usageStats, textOnlyMode,
                   gameStarted, currentSaveId, quota, budget, issued, nextSaveId>>
    /\ Render(FALSE, saves)

-----------------------------------------------------------------------------
(* Specifications                                                           *)

Quotas == {1, 4, 100}

AppInit ==
    /\ gameState = NullState
    /\ history = <<>>
    /\ chatMessages = <<>>
    /\ usageStats = initialUsageStats
    /\ loading = FALSE
    /\ imageLoading = FALSE
    /\ chatLoading = FALSE
    /\ textOnlyMode = FALSE
    /\ showKeyModal = FALSE
    /\ gameStarted = FALSE
    /\ saves = <<>>
    /\ currentSaveId = NoSave
    /\ storage = <<>>
    /\ pending = {}
    /\ issued = 0
    /\ nextSaveId = 1
    /\ writes = <<>>
    /\ crashed = FALSE

AppNext ==
    \/ startGame
    \/ loadSave
    \/ deleteSave
    \/ exit
    \/ toggleTextOnly
    \/ resetUsage
    \/ handleKeySelection
    \/ makeChoice
    \/ sendChatMessage
    \/ storyResolved
    \/ storyRejected
    \/ imageResolved
    \/ imageRejected
    \/ chatResolved
    \/ chatRejected

\* the facade alone: the App stays as constructed
-----------------------------------------------------------------------------
(* aiService: the API key store                                             *)

\* MaxKeyOps bounds the calls of setStoredApiKey and clearAllApiKeys in a run
MaxKeyOps == 3

\* secrets a caller may pass: the empty string and two keys
Secrets == {<<>>, <<"k1">>, <<"k2">>}

\* localStorage.getItem(PREFIX + provider) || ''
getStoredApiKey(provider) ==
    IF keyStore[provider] = Undefined THEN <<>>
    ELSE OrStr(CHOOSE k \in keyStore[provider] : TRUE, <<>>)

\* getStoredApiKey(provider).length > 0
hasApiKey(provider) == Len(getStoredApiKey(provider)) > 0

KeyOp(op, provider, key) == [op |-> op, provider |-> provider, key |-> key]

\* a set that ignores the empty secret instead of deleting the entry
setStoredApiKey_IgnoreEmpty(provider, key) ==
    /\ Len(keyLog) < MaxKeyOps
    /\ keyStore' = IF key # <<>> THEN [keyStore EXCEPT ![provider] = {key}] ELSE keyStore
    /\ keyLog' = Append(keyLog, KeyOp("set", provider, key))
    /\ UNCHANGED <<facadeVars, appVars, costVars>>

setStoredApiKey(provider, key) ==
    /\ Len(keyLog) < MaxKeyOps
    /\ keyStore' = IF key # <<>>
                   THEN [keyStore EXCEPT ![provider] = {key}]         \* setItem
                   ELSE [keyStore EXCEPT ![provider] = Undefined]     \* removeItem
    /\ keyLog' = Append(keyLog, KeyOp("set", provider, key))
    /\ UNCHANGED <<facadeVars, appVars, costVars>>

CallSetStoredApiKey == \E p \in Supported, k \in Secrets : setStoredApiKey(p, k)

\* Object.values(AIProvider).forEach(removeItem)
clearAllApiKeys ==
    /\ Len(keyLog) < MaxKeyOps
    /\ keyStore' = [p \in Supported |-> Undefined]
    /\ keyLog' = Append(keyLog, KeyOp("clearAll", "none", <<>>))
    /\ UNCHANGED <<facadeVars, appVars, costVars>>

\* no key is stored and no call was made
KeyInit ==
    /\ keyStore = [p \in Supported |-> Undefined]
    /\ keyLog = <<>>

KeyNext == CallSetStoredApiKey \/ clearAllApiKeys

\* the arguments of a call of calculateEstimatedCost
CostArgs(inputTokens, outputTokens, images, premiumImages, provider, modelType) ==
    [inputTokens |-> inputTokens, outputTokens |-> outputTokens, images |-> images,
     premiumImages |-> premiumImages, provider |-> provider, modelType |-> modelType]

CostInputs ==
    { CostArgs(i, o, n, m, p, t) :
        i \in {0, 1, 1000}, o \in {0, 1, 500}, n \in 0..2, m \in 0..1,
        p \in Providers, t \in ModelTypes }

\* no call of calculateEstimatedCost is made
CostIdle ==
    /\ costArgs = CostArgs(0, 0, 0, 0, "GEMINI", "flash")
    /\ costResult = Undefined

\* the call returns
Estimate ==
    /\ costResult = Undefined
    /\ costResult' = {calculateEstimatedCost(costArgs.inputTokens, costArgs.outputTokens,
                                             costArgs.images, costArgs.premiumImages,
                                             costArgs.provider, costArgs.modelType)}
    /\ UNCHANGED <<costArgs, facadeVars, appVars, keyVars>>

\* the caller drops the result
EstimateDone ==
    /\ costResult # Undefined
    /\ costResult' = Undefined
    /\ UNCHANGED <<costArgs, facadeVars, appVars, keyVars>>

CostNext == Estimate \/ EstimateDone

\* calculateEstimatedCost alone, on every input of CostInputs
InitCost ==
    /\ FacadeInit /\ AppInit /\ KeyInit /\ quota = 100 /\ budget = 0
    /\ costArgs \in CostInputs
    /\ costResult = Undefined

SpecCost == InitCost /\ [][CostNext]_vars

\* the key store alone
InitKeys == FacadeInit /\ AppInit /\ CostIdle /\ KeyInit /\ quota = 100 /\ budget = 0

SpecKeys == InitKeys /\ [][KeyNext]_vars

InitFacade == FacadeInit /\ AppInit /\ CostIdle /\ KeyInit /\ quota = 100 /\ budget = 0

SpecFacade == InitFacade /\ [][FacadeNext]_vars

\* the play loop: the App without the save menu (load, delete) and the
\* billing panel's RESET
PlayNext ==
    \/ startGame
    \/ exit
    \/ toggleTextOnly
    \/ handleKeySelection
    \/ makeChoice
    \/ sendChatMessage
    \/ storyResolved
    \/ storyRejected
    \/ imageResolved
    \/ imageRejected
    \/ chatResolved
    \/ chatRejected

\* the App alone: its service calls are the requests in pending
Init == FacadeInit /\ AppInit /\ CostIdle /\ KeyInit /\ quota \in Quotas /\ budget = MaxRequests

SpecApp == Init /\ [][AppNext]_vars

InitPlay ==
    FacadeInit /\ AppInit /\ CostIdle /\ KeyInit /\ quota \in Quotas /\ budget = MaxPlayRequests

SpecPlay == InitPlay /\ [][PlayNext]_vars

Next == FacadeNext \/ AppNext \/ CostNext \/ KeyNext
Spec == Init /\ [][Next]_vars

-----------------------------------------------------------------------------
(* Properties of the facade (SpecFacade)                                    *)

StoryDone == fphase = "done" /\ fcall.cap = "story" /\ fcall.provider \in Supported

\* the upstream answered 401: an HTTP response of the fetch-based providers,
\* or the status or code of the error an SDK call rejects with
Unauthorized401 ==
    \/ fupstream.kind = "http" /\ fupstream.status = 401
    \/ fupstream.kind = "reject"
       /\ (fupstream.error.status = {401} \/ fupstream.error.code = {401})

\* C1: for each of the three providers, a story call the upstream rejects as
\* unauthorized (HTTP 401) makes generateStoryBeat raise Error 'API_KEY_ERROR'.
C1_Unauthorized_Raises_ApiKeyError ==
    (StoryDone /\ Unauthorized401) =>
        (fresult.kind = "throw" /\ fresult.error.message = <<"API_KEY_ERROR">>)

\* C2: for all three providers, the state a successful generateStoryBeat
\* returns has all seven fields, whichever fields the reply omits.
C2_Success_Has_Seven_Fields ==
    (StoryDone /\ fresult.kind = "ok") =>
        (fresult.env.data.t = "obj" /\ DOMAIN fresult.env.data.f = Fields)

\* what the specification counts as an authentication signal: HTTP 401, 403
\* or 404 (as response status, or as status or code of the error), or one of
\* the known phrases in the error text
AuthCodes == {401, 403, 404}
AuthPhrases == {"permission", "not found", "api_key_invalid"}
AuthSignal(u, e) ==
    \/ u.kind = "http" /\ u.status \in AuthCodes
    \/ (e.status \cup e.code \cup e.innerCode) \cap AuthCodes # {}
    \/ \E phrase \in AuthPhrases :
         includes(toLowerCase(e.message), phrase)
         \/ includes(toLowerCase(e.innerMessage), phrase)

C9_Http_Error_Message ==
    (StoryDone /\ fcall.provider \in FetchProviders /\ fupstream.kind = "http") =>
        /\ fresult.kind = "throw"
        /\ fresult.error.message =
              <<IF fcall.provider = "OPENAI" THEN "OpenAI API error: "
                                             ELSE "Claude API error: ">>
              \o fupstream.statusText

\* C9 happens: OpenAI answered 401 Unauthorized, Claude 429 Rate Limited
C9_Witness ==
    /\ StoryDone /\ fupstream.kind = "http"
    /\ \/ /\ fcall.provider = "OPENAI"
          /\ fupstream.status = 401 /\ fupstream.statusText = <<"Unauthorized">>
          /\ fresult.error.message = <<"OpenAI API error: ", "Unauthorized">>
       \/ /\ fcall.provider = "CLAUDE"
          /\ fupstream.status = 429 /\ fupstream.statusText = <<"Rate Limited">>
          /\ fresult.error.message = <<"Claude API error: ", "Rate Limited">>

\* the reply arrived whole (body, path to the text, usage); its text is text
\* that is no JSON (the empty text included), or the JSON of an object
WholeReply ==
    /\ StoryDone /\ fupstream.kind = "reply"
    /\ fupstream.body.json /\ fupstream.body.pathOk /\ fupstream.body.usage # Undefined
ReplyNotJson == fupstream.body.text.t \in {"empty", "text"}
ReplyJsonObject == fupstream.body.text.t = "json" /\ fupstream.body.text.value.t = "obj"

\* C10: for every provider, generateStoryBeat fails when the reply text is no
\* JSON at all, and succeeds when it is the JSON of an object, however few of
\* the fields it has.
C10_Fails_Iff_Not_Json ==
    WholeReply =>
        /\ ReplyNotJson => fresult.kind = "throw"
        /\ ReplyJsonObject => fresult.kind = "ok"

\* a story reply that is complete but for its usage metadata, which may be
\* missing: the body is JSON, the path to the text is there, and the text is
\* the JSON of an object
StoryReplyObject ==
    /\ StoryDone /\ fupstream.kind = "reply"
    /\ fupstream.body.json /\ fupstream.body.pathOk
    /\ ReplyJsonObject

\* C11: for every provider, generateStoryBeat reports the token counts of the
\* reply's usage metadata when the reply has them, and zero for both counts
\* when it has none; without metadata the call still succeeds, and the counts
\* are natural numbers.
C11_Tokens_From_Metadata_Or_Zero ==
    StoryReplyObject =>
        /\ fresult.kind = "ok"
        /\ fresult.env.usage.inputTokens \subseteq Nat
        /\ fresult.env.usage.outputTokens \subseteq Nat
        /\ fupstream.body.usage = Undefined =>
              /\ fresult.env.usage.inputTokens = {0}
              /\ fresult.env.usage.outputTokens = {0}
        /\ fupstream.body.usage # Undefined =>
              /\ fresult.env.usage.inputTokens = UsageTokens(fupstream.body.usage, 1)
              /\ fresult.env.usage.outputTokens = UsageTokens(fupstream.body.usage, 2)

\* C12: the state a successful generateStoryBeat returns has a non-empty list
\* of choices, whatever the reply holds (a reply with choices: [] included).
C12_Choices_Never_Empty ==
    (StoryDone /\ fresult.kind = "ok") =>
        /\ fresult.env.data.t = "obj"
        /\ "choices" \in DOMAIN fresult.env.data.f
        /\ fresult.env.data.f["choices"].t = "arr"
        /\ fresult.env.data.f["choices"].v # <<>>

\* the defaults the specification lists for the seven fields
FieldDefaults ==
    [storyText    |-> JStr(<<"The story begins...">>),
     choices      |-> JArr(<<"Continue">>),
     inventory    |-> JArr(<<>>),
     currentQuest |-> JStr(<<"Unknown quest">>),
     visualPrompt |-> JStr(<<"A mysterious scene">>),
     worldStyle   |-> JStr(<<"fantasy">>),
     genre        |-> JStr(<<"Fantasy">>)]

\* a story call to OpenAI or Claude has succeeded; Parsed is the value the
\* reply text stands for, Present(n) says that it is an object with member n
NormalizedDone ==
    StoryDone /\ fcall.provider \in FetchProviders /\ fresult.kind = "ok"
Parsed == fupstream.body.text.value
Present(n) == Parsed.t = "obj" /\ n \in DOMAIN Parsed.f
Returned(n) == fresult.env.data.f[n]

\* C13 as stated: for OpenAI and Claude, each field absent from the parsed
\* reply is replaced by its default and each field present in the reply is
\* returned as the reply gives it, independently for every field.
C13_Absent_Default_Present_As_Given ==
    NormalizedDone =>
        \A n \in Fields :
            /\ ~Present(n) => Returned(n) = FieldDefaults[n]
            /\ Present(n) => Returned(n) = Parsed.f[n]

\* a value JavaScript's || passes over: null or the empty string
Falsy(x) == x = JNull \/ x = JStr(<<>>)

\* C13 amended: each field that is absent from the parsed reply, or present
\* with a falsy value (null, the empty string), is replaced by its default;
\* each field present with any other value (a non-empty string, a list, the
\* empty list included) is returned as given; independently for every field.
C13_Absent_Or_Falsy_Default ==
    NormalizedDone =>
        \A n \in Fields :
            /\ (~Present(n) \/ (Present(n) /\ Falsy(Parsed.f[n]))) =>
                   Returned(n) = FieldDefaults[n]
            /\ (Present(n) /\ ~Falsy(Parsed.f[n])) => Returned(n) = Parsed.f[n]

\* C13 happens: OpenAI replied {storyText: "X", choices: ["a"], genre: ""} and
\* nothing else; the two fields are returned as given, the empty genre and the
\* four absent fields by their defaults
C13_Witness ==
    /\ NormalizedDone /\ fcall.provider = "OPENAI"
    /\ Parsed.t = "obj" /\ DOMAIN Parsed.f = {"storyText", "choices", "genre"}
    /\ Parsed.f["storyText"] = JStr(<<"X">>)
    /\ Parsed.f["choices"] = JArr(<<"a">>)
    /\ Parsed.f["genre"] = JStr(<<>>)
    /\ Returned("storyText") = JStr(<<"X">>)
    /\ Returned("choices") = JArr(<<"a">>)
    /\ Returned("inventory") = JArr(<<>>)
    /\ Returned("currentQuest") = JStr(<<"Unknown quest">>)
    /\ Returned("genre") = JStr(<<"Fantasy">>)

\* the three functions of the facade
FacadeCaps == {"story", "image", "chat"}
FacadeCallDone == fphase = "done" /\ fcall.cap \in FacadeCaps

\* C14: a facade call (generateStoryBeat, generateImage, getChatResponse)
\* whose provider is none of the three supported ones fails with the error
\* 'Unsupported provider: <id>', which carries the identifier; no adapter is
\* invoked, no request is made, and the error is thrown as it is, not
\* reclassified as an API key error.
C14_Unsupported_Provider_Fails ==
    (fcall.cap \in FacadeCaps /\ fcall.provider \notin Supported) =>
        /\ fphase = "done"
        /\ adapterCalls = 0 /\ networkCalls = 0
        /\ fupstream = NoUpstream
        /\ fresult.kind = "throw"
        /\ fresult.error = NewError("facade", "Error", <<"Unsupported provider: ", fcall.provider>>)
        /\ fresult.error # ApiKeyError

\* C14 happens: each of the three functions was called with 'UNSUPPORTED'
\* (here getChatResponse) and has thrown
C14_Witness ==
    /\ fphase = "done" /\ fcall.cap = "chat" /\ fcall.provider = "UNSUPPORTED"
    /\ fresult.kind = "throw"
    /\ fresult.error.message = <<"Unsupported provider: ", "UNSUPPORTED">>
    /\ networkCalls = 0

\* the adapter the facade's switch names for a capability and a provider
AdapterOf(cap, provider, u, quality) ==
    CASE cap = "story" /\ provider = "GEMINI" -> geminiGenerateStory(u)
      [] cap = "story" /\ provider = "OPENAI" -> openaiGenerateStory(u)
      [] cap = "story" /\ provider = "CLAUDE" -> claudeGenerateStory(u)
      [] cap = "image" /\ provider = "GEMINI" -> geminiGenerateImage(u, quality)
      [] cap = "image" /\ provider = "OPENAI" -> openaiGenerateImage(u, quality)
      [] cap = "image" /\ provider = "CLAUDE" -> claudeGenerateImage
      [] cap = "chat"  /\ provider = "GEMINI" -> geminiChat(u)
      [] cap = "chat"  /\ provider = "OPENAI" -> openaiChat(u)
      [] cap = "chat"  /\ provider = "CLAUDE" -> claudeChat(u)

\* C15: for each supported provider and each capability, a facade call that
\* succeeds has run one adapter, that of the requested provider, and returns
\* its envelope unchanged; usage.provider of the result is the requested
\* provider.
C15_Success_Passes_Envelope_Through ==
    (FacadeCallDone /\ fcall.provider \in Supported /\ fresult.kind = "ok") =>
        /\ adapterCalls = 1
        /\ fadapter = AdapterOf(fcall.cap, fcall.provider, fupstream, fcall.quality)
        /\ fresult = fadapter
        /\ fresult.env.usage.provider = fcall.provider

\* C15 happens: a story call to Claude succeeded with the reply's token counts
C15_Witness ==
    /\ StoryDone /\ fcall.provider = "CLAUDE" /\ fresult.kind = "ok"
    /\ fresult.env.usage.provider = "CLAUDE"
    /\ fresult.env.usage.inputTokens = {3} /\ fresult.env.usage.outputTokens = {5}
    /\ fresult.env.data.f["storyText"] = JStr(<<"X">>)

\* C16: generateImage with Claude, at every quality, makes no request and
\* returns at once a success whose data is undefined and whose token counts
\* are zero.
C16_Claude_Image_Is_Undefined ==
    (fcall.cap = "image" /\ fcall.provider = "CLAUDE") =>
        /\ fphase = "done"
        /\ networkCalls = 0
        /\ fupstream = NoUpstream
        /\ fresult.kind = "ok"
        /\ fresult.env.data = JUndef
        /\ fresult.env.usage.inputTokens = {0}
        /\ fresult.env.usage.outputTokens = {0}

\* C16 happens: generateImage was called with Claude at quality 'fast'
C16_Witness ==
    /\ fphase = "done" /\ fcall = CallWith("image", "CLAUDE", "fast", Undefined)
    /\ fresult.kind = "ok" /\ fresult.env.data = JUndef
    /\ fresult.env.usage.provider = "CLAUDE"

\* C17: usage.isPremium of a generateImage result is true only when the
\* request used a higher-cost tier; for a request of the cheaper quality
\* 'fast' it is not true.
C17_Premium_Only_For_Higher_Tier ==
    (fphase = "done" /\ fcall.cap = "image" /\ fresult.kind = "ok"
       /\ fcall.quality = "fast") =>
        fresult.env.usage.isPremium # {TRUE}

\* a chat call, of the facade or of geminiService, has returned or thrown
ChatCaps == {"chat", "serviceChat"}
ChatDone == fphase = "done" /\ fcall.cap \in ChatCaps /\ fcall.provider \in Supported

\* C18: getChatResponse with a context whose inventory is undefined does not
\* raise on that account, for every provider: it builds the persona
\* directive with an empty item list, the text it builds for inventory [],
\* and sends its request.
C18_Undefined_Inventory_Is_Empty_List ==
    /\ (fcall.cap \in ChatCaps /\ fcall.provider \in Supported
          /\ fcall.inventory = Undefined) =>
            /\ fdirective = <<"Their inventory includes: ", ".">>
            /\ networkCalls = 1
    /\ (ChatDone /\ fcall.inventory = Undefined
          /\ fupstream.kind = "reply" /\ fupstream.body.pathOk
          /\ fupstream.body.usage # Undefined) =>
            fresult.kind = "ok"

\* C19: for every provider, getChatResponse returns the reply's text when it
\* is not empty and the apology when the text is empty or cannot be
\* extracted (undefined, null); the data it returns is never empty nor
\* undefined.
C19_Reply_Text_Or_Apology ==
    (ChatDone /\ fresult.kind = "ok") =>
        /\ fresult.env.data.t = "str" /\ fresult.env.data.v # <<>>
        /\ fupstream.body.text.t = "text" => fresult.env.data = JStr(fupstream.body.text.raw)
        /\ fupstream.body.text.t # "text" => fresult.env.data = Apology

\* the code and the message of a failure: those of the error, or those of
\* the error nested in it ({error: {code, message}}) where it has none itself
FailureCode(e) == IF e.code # Undefined THEN e.code ELSE e.innerCode
FailureMessage(e) == IF e.message # <<>> THEN e.message ELSE e.innerMessage
GeminiKeyFailure(e) ==
    \/ FailureCode(e) \cap {403, 404} # {}
    \/ \E phrase \in AuthPhrases : includes(toLowerCase(FailureMessage(e)), phrase)

\* C27: for Gemini (the facade's three functions, and geminiService's chat),
\* a failure is raised as the API key error exactly when its code is 403 or
\* 404 or its message contains 'permission', 'not found' or
\* 'api_key_invalid' in any case of letters; every other failure is raised
\* again as the error it is.
C27_Gemini_Key_Error_Exactly ==
    (fphase = "done" /\ fcall.provider = "GEMINI" /\ fadapter.kind = "throw") =>
        /\ fresult.kind = "throw"
        /\ GeminiKeyFailure(fadapter.error) <=> fresult.error = ApiKeyError
        /\ ~GeminiKeyFailure(fadapter.error) => fresult.error = fadapter.error

\* C27 happens: the Gemini SDK rejected a story call with 'Permission denied'
\* and no code, and the facade raised the API key error
C27_Witness ==
    /\ StoryDone /\ fcall.provider = "GEMINI"
    /\ fupstream.kind = "reject"
    /\ fupstream.error.message = <<"Permission", "denied">>
    /\ fupstream.error.code = Undefined /\ fupstream.error.innerCode = Undefined
    /\ fresult = Throw(ApiKeyError)

-----------------------------------------------------------------------------
(* Properties of the App (SpecApp, SpecPlay)                                *)

\* the last save sync found the storage full at its first setItem
FirstSyncWriteFailed == writes # <<>> /\ writes[1].op = "sync" /\ ~writes[1].ok

\* C3: when the first write of the slot list fails for lack of capacity,
\* exactly one more write is attempted, and its payload is the first payload
\* with the imageUrl of every history entry of every slot removed: slots,
\* their ids, names, genres, gameState, chatMessages, usageStats, and the
\* order, text, choice and state of their history entries are as they were.
C3_Retry_Strips_Every_Image ==
    FirstSyncWriteFailed =>
        /\ Len(writes) = 2
        /\ LET first == writes[1].payload
               retry == writes[2].payload
           IN  /\ Len(retry) = Len(first)
               /\ \A i \in DOMAIN first :
                    /\ retry[i].id = first[i].id
                    /\ retry[i].name = first[i].name
                    /\ retry[i].genre = first[i].genre
                    /\ retry[i].gameState = first[i].gameState
                    /\ retry[i].chatMessages = first[i].chatMessages
                    /\ retry[i].usageStats = first[i].usageStats
                    /\ Len(retry[i].history) = Len(first[i].history)
                    /\ \A j \in DOMAIN first[i].history :
                         /\ retry[i].history[j].text = first[i].history[j].text
                         /\ retry[i].history[j].choice = first[i].history[j].choice
                         /\ retry[i].history[j].state = first[i].history[j].state
                         /\ retry[i].history[j].imageUrl = Undefined

\* C3 happens: the first write of two slots, each with an image in its
\* history, failed, and the retry went through
C3_Witness ==
    /\ FirstSyncWriteFailed /\ Len(writes) = 2 /\ writes[2].ok
    /\ Len(writes[1].payload) = 2
    /\ \A i \in DOMAIN writes[1].payload :
         \E j \in DOMAIN writes[1].payload[i].history :
            writes[1].payload[i].history[j].imageUrl # Undefined
    /\ storage = writes[2].payload
    /\ ~crashed

\* C4: when the retried write fails too, the failure is swallowed: nothing
\* escapes the save sync, the slot list in memory is the updated one, and the
\* session goes on.
C4_Second_Failure_Is_Swallowed ==
    (FirstSyncWriteFailed /\ Len(writes) = 2 /\ ~writes[2].ok) =>
        (~crashed /\ saves = writes[1].payload)

\* C5: at any time at most one story request is in flight for a session.
C5_One_Story_Request_In_Flight ==
    \A r1, r2 \in PendingOf("story") : r1.sid = r2.sid => r1 = r2

\* C6: the history and the chat of a slot hold only what the slot's own
\* session produced.
C6_Slot_Owns_Its_History ==
    \A i \in DOMAIN saves :
        /\ \A j \in DOMAIN saves[i].history : saves[i].history[j].state.sid = saves[i].id
        /\ \A k \in DOMAIN saves[i].chatMessages : saves[i].chatMessages[k].sid = saves[i].id

\* a field of usageStats goes down in the step
UsageDecreases == \E f \in DOMAIN usageStats : usageStats'[f] < usageStats[f]

\* C7: within a session (on the game screen) no field of usageStats ever
\* decreases; usageStats goes back to zero only when a session starts.
C7_Usage_Never_Decreases_In_Session ==
    [][gameStarted => ~UsageDecreases]_vars

\* the step is a press of the RESET button of the billing panel
ResetPressed ==
    /\ usageStats' = initialUsageStats
    /\ UNCHANGED <<gameState, history, chatMessages, pending, issued, gameStarted,
                   currentSaveId>>

\* C7, amended: within a session no field of usageStats ever decreases across
\* story, image and chat operations; the only step of a session that lowers
\* it is the RESET button, which sets it to zero.
C7_Usage_Decreases_Only_By_Reset ==
    [][(gameStarted /\ UsageDecreases) => ResetPressed]_vars

\* C7 happens: the story of this session was answered (and counted), and
\* usageStats is zero again in mid-session
C7_Witness ==
    /\ gameStarted /\ ~crashed
    /\ gameState # NullState /\ gameState.sid = currentSaveId
    /\ history # <<>> /\ history[1].imageUrl # Undefined
    /\ usageStats = initialUsageStats

\* the requests whose await ends in the step: they are pending before it and
\* not after it (a story request that goes on to its image request included)
Settled == pending \ pending'

\* the slot with identifier id in a slot list, as a set (empty: no such slot)
SlotOf(slots, id) == {slots[i] : i \in {j \in DOMAIN slots : slots[j].id = id}}

\* C25: a response to a request of one session is applied to that session
\* only: when the user has gone to another slot in the meantime, the late
\* response changes nothing of what is saved in a slot of another session.
C25_Late_Response_Leaves_Other_Slots ==
    [][\A r \in Settled :
          \A i \in DOMAIN saves' :
              (saves'[i].id # r.sid /\ SlotOf(saves, saves'[i].id) # {}) =>
                  saves'[i] \in SlotOf(saves, saves'[i].id)]_vars

\* the step ends a successful story turn: in text-only mode the story
\* request is answered, in image mode the image request that followed the
\* answered story request is settled, with or without an image
TurnEnds(r) ==
    \/ r.kind = "story" /\ r.textOnly /\ gameState' = [sid |-> r.sid, beat |-> r.rid]
    \/ r.kind = "image"

\* C26: every successful story turn (start or choice) puts exactly one entry
\* for the new state at the head of history, in text-only mode and in image
\* mode, whether or not the image call gave an image; no other step of the
\* play loop changes history.
C26_One_Entry_Per_Turn ==
    [][/\ \A r \in Settled :
            TurnEnds(r) =>
                /\ Len(history') = Len(history) + 1
                /\ Tail(history') = history
                /\ history'[1].state = [sid |-> r.sid, beat |-> r.rid]
       /\ (\A r \in Settled : ~TurnEnds(r)) => history' = history]_vars

\* the sync of the step wrote the slot list at its first attempt
NormalSync == writes' # <<>> /\ writes'[1].op = "sync" /\ writes'[1].ok

\* C28: in a save sync that is not degraded, the stored history of the
\* current slot is the history in memory with the imageUrl of every entry but
\* the first removed (text, choice and state of every entry as they are),
\* and every other slot is written as it was.
C28_Normal_Sync_Keeps_Latest_Image ==
    [][NormalSync =>
         \A i \in DOMAIN writes'[1].payload :
            LET slot == writes'[1].payload[i]
            IN  IF slot.id = currentSaveId'
                THEN /\ Len(slot.history) = Len(history')
                     /\ \A j \in DOMAIN history' :
                          /\ slot.history[j].text = history'[j].text
                          /\ slot.history[j].choice = history'[j].choice
                          /\ slot.history[j].state = history'[j].state
                          /\ slot.history[j].imageUrl =
                                IF j = 1 THEN history'[j].imageUrl ELSE Undefined
                ELSE SlotOf(saves, slot.id) # {} => slot \in SlotOf(saves, slot.id)]_vars

\* C28 happens: the slot list was written at the first attempt; the current
\* slot's history has two entries that both have an image in memory, and the
\* stored slot has the image of the first only
C28_Witness ==
    /\ writes # <<>> /\ writes[1].op = "sync" /\ writes[1].ok /\ ~crashed
    /\ Len(history) = 2
    /\ history[1].imageUrl # Undefined /\ history[2].imageUrl # Undefined
    /\ \E slot \in SlotOf(storage, currentSaveId) :
         /\ Len(slot.history) = 2
         /\ slot.history[1].imageUrl = history[1].imageUrl
         /\ slot.history[2].imageUrl = Undefined

\* C29: within a turn the image request is issued only when the turn's story
\* call has succeeded, in the step that applies its result and never while
\* it is in flight; it is made for the state that call returned; when the
\* story call fails the turn issues no image request.
C29_Image_Follows_Story ==
    [][\A i \in PendingOf("image")' \ PendingOf("image") :
          /\ \E r \in PendingOf("story") :
                /\ r.rid = i.rid /\ r.sid = i.sid
                /\ r \notin pending'
          /\ i.state = [sid |-> i.sid, beat |-> i.rid]
          /\ gameState' = i.state
          /\ \A r \in PendingOf("story")' : r.rid # i.rid]_vars

\* C29 happens: the story call of a choice was answered and the image request
\* for the state it returned is in flight, alone
C29_Witness ==
    /\ gameStarted /\ ~crashed
    /\ \E i \in PendingOf("image") :
         /\ i.op = "choice"
         /\ i.state = gameState /\ gameState.beat = i.rid
         /\ pending = {i}
    /\ loading /\ imageLoading

\* the story request r of a choice fails in the step
ChoiceFails(r) ==
    /\ r.kind = "story" /\ r.op = "choice"
    /\ gameState' # [sid |-> r.sid, beat |-> r.rid]

\* C30: when the story call of a choice fails, the turn is lost and nothing
\* else: gameState, history, chat, usageStats and the slots (in memory and
\* stored) are as before, no image request follows, the three loading flags
\* are cleared, and the choice buttons are there again.
C30_Failed_Choice_Changes_Nothing ==
    [][\A r \in Settled :
          ChoiceFails(r) =>
              /\ UNCHANGED <<gameState, history, chatMessages, usageStats, saves, storage>>
              /\ pending' = pending \ {r}
              /\ ~loading' /\ ~imageLoading' /\ ~chatLoading'
              /\ gameState' # NullState]_vars

\* C30 happens: the first session's second request, a choice, has failed:
\* the state is still that of the start, the buttons are back
C30_Witness ==
    /\ gameStarted /\ ~crashed /\ ~showKeyModal
    /\ issued = 2 /\ pending = {} /\ chatMessages = <<>>
    /\ currentSaveId = 1 /\ nextSaveId = 2
    /\ gameState = [sid |-> 1, beat |-> 1]
    /\ Len(history) = 1
    /\ ~loading

-----------------------------------------------------------------------------
(* Properties of calculateEstimatedCost (SpecCost)                          *)

\* the row of the price table the specification names for a provider and a
\* tier: the elevated row for tier 'pro', the base row for every other tier
ElevatedRow == [GEMINI |-> "GEMINI_PRO", OPENAI |-> "OPENAI_GPT4", CLAUDE |-> "CLAUDE_SONNET"]
BaseRow == [GEMINI |-> "GEMINI_FLASH", OPENAI |-> "OPENAI_GPT3_5", CLAUDE |-> "CLAUDE_HAIKU"]
RowOf(provider, tier) ==
    PRICING[IF tier = "pro" THEN ElevatedRow[provider] ELSE BaseRow[provider]]

\* the cost of the call's arguments with its four counts replaced
CostAt(i, o, n, m) ==
    calculateEstimatedCost(i, o, n, m, costArgs.provider, costArgs.modelType)
Factors == 0..3

C21_Gemini_Flash_Premium_At_Pro_Rate ==
    (costResult # Undefined /\ costArgs.provider = "GEMINI" /\ costArgs.modelType = "flash") =>
        costResult = {costArgs.inputTokens * 10 + costArgs.outputTokens * 40
                      + costArgs.images * 80000 + costArgs.premiumImages * 4000000}

\* C22: with a provider that is none of the three supported ones,
\* calculateEstimatedCost returns a cost, at the rates of Gemini's base row
\* (flash), whatever the tier ('pro' included).
C22_Unknown_Provider_Gemini_Flash ==
    (costResult # Undefined /\ costArgs.provider \notin Supported) =>
        costResult = {costArgs.inputTokens * PRICING.GEMINI_FLASH.input
                      + costArgs.outputTokens * PRICING.GEMINI_FLASH.output
                      + costArgs.images * PRICING.GEMINI_FLASH.image
                      + costArgs.premiumImages * PRICING.GEMINI_FLASH.image}

\* C22 happens: 1000 input and 500 output tokens and one image for the
\* provider 'UNSUPPORTED' at tier 'pro' cost 0.0011 dollars
C22_Witness ==
    /\ costArgs = CostArgs(1000, 500, 1, 0, "UNSUPPORTED", "pro")
    /\ costResult = {110000}

\* C23: calculateEstimatedCost(0, 0, 0, 0, provider, tier) is 0 for every
\* provider and tier.
C23_Zero_Counts_Cost_Nothing ==
    (costResult # Undefined
       /\ costArgs.inputTokens = 0 /\ costArgs.outputTokens = 0
       /\ costArgs.images = 0 /\ costArgs.premiumImages = 0) =>
        costResult = {0}

\* C23 happens: the four counts are zero, for Claude at tier 'pro'
C23_Witness ==
    /\ costArgs = CostArgs(0, 0, 0, 0, "CLAUDE", "pro")
    /\ costResult = {0}

-----------------------------------------------------------------------------
(* Properties of the API key store (SpecKeys)                               *)

\* what the calls in log leave for provider p: the secret of the last set
\* for p if no clearAll came after it, the empty string if there is none
RECURSIVE LastSecret(_, _)
LastSecret(log, p) ==
    IF log = <<>> THEN <<>>
    ELSE LET last == log[Len(log)]
         IN  IF last.op = "clearAll" THEN <<>>
             ELSE IF last.provider = p THEN last.key
             ELSE LastSecret(SubSeq(log, 1, Len(log) - 1), p)

\* getStoredApiKey and hasApiKey answer for the calls made so far
AnswersLatest ==
    \A p \in Supported :
        /\ getStoredApiKey(p) = LastSecret(keyLog, p)
        /\ hasApiKey(p) <=> getStoredApiKey(p) # <<>>

\* the step is a set, and it changes no entry but that of its provider
SetLeavesOthers ==
    (keyLog' # keyLog /\ keyLog'[Len(keyLog')].op = "set") =>
        \A p \in Supported \ {keyLog'[Len(keyLog')].provider} :
            keyStore'[p] = keyStore[p]

\* C24: after any sequence of setStoredApiKey and clearAllApiKeys, for every
\* provider p, getStoredApiKey(p) is the secret of the latest set for p when
\* no clearAll followed it (the empty secret deletes the entry), and the
\* empty string otherwise; hasApiKey(p) holds exactly when that is not
\* empty; and a set for one provider changes no other provider's entry.
C24_Key_Store_Keeps_Latest_Secret ==
    []AnswersLatest /\ [][SetLeavesOthers]_vars

\* C24 happens: OpenAI's key was set and then deleted by an empty secret,
\* while Claude's key, set in between, is still there
C24_Witness ==
    /\ keyLog = <<KeyOp("set", "OPENAI", <<"k1">>), KeyOp("set", "CLAUDE", <<"k2">>),
                  KeyOp("set", "OPENAI", <<>>)>>
    /\ getStoredApiKey("OPENAI") = <<>> /\ ~hasApiKey("OPENAI")
    /\ getStoredApiKey("CLAUDE") = <<"k2">> /\ hasApiKey("CLAUDE")

=============================================================================
